---- MODULE Spec2Model ----
(***************************************************************************)
(* note-to-self: the notebook store (src/src/notebook.rs) and the server   *)
(* functions in front of it (src/src/app.rs).                              *)
(*                                                                         *)
(* The store is a Postgres database with two tables,                       *)
(*     notebooks (id, name)       texts (id, notebook_id, text)            *)
(* Every SQL statement is run on the pool by itself, so each statement is  *)
(* its own transaction: it takes effect as a whole or, on an error, not at *)
(* all.  The statements of one handler are separated by .await points.     *)
(*                                                                         *)
(* Both ids are keys filled from a sequence (INSERT .. RETURNING id, ON    *)
(* CONFLICT (id)).  notebooks.name is UNIQUE; that constraint is part of   *)
(* the schema, which the Rust sources do not contain.  texts.notebook_id   *)
(* always names an existing notebook here: notebooks are never deleted,    *)
(* and a text is only written after the access gate or after the upsert of *)
(* its notebook, so the foreign key never rejects a statement.             *)
(*                                                                         *)
(* The session is the actix_session::Session of the request: a per-client  *)
(* key/value map of which only the key "notebook_id" is used, kept from    *)
(* one request of the client to the next.  Extracting it cannot fail.      *)
(*                                                                         *)
(* Spec serves the requests one at a time, each server function as a       *)
(* whole.  SpecConc runs the requests of two sessions statement by         *)
(* statement, interleaved.  SpecClient is one browser page editing one     *)
(* notebook (NotebookComponent and its children in src/src/app.rs): every  *)
(* request is a spawn_local task, and the requests in flight reach the     *)
(* server in any order.  SpecEdit applies Notebook::set_text and           *)
(* Notebook::delete_text to the values of struct Notebook.                 *)
(***************************************************************************)
EXTENDS Integers, Sequences, FiniteSets, Bags, TLC

\* ------------------------------------------------------------- bounds
MaxNb   == 2      \* notebook ids are 1..MaxNb (the notebooks id sequence is capped)
MaxCell == 2      \* text ids are 1..MaxCell (the texts id sequence is capped)
MaxLen  == 2      \* a submitted notebook carries at most MaxLen texts

NbIds    == 1..MaxNb
CellIds  == 1..MaxCell
Names    == {"a", "b"}
Sessions == {"s1", "s2"}
\* 'New Text Box...' is the text add_new_text_to_notebook inserts
NewTextBox == "New Text Box..."
Texts    == {NewTextBox, "Milk"}

\* ------------------------------------------------------------- values
\* struct TextFile { text, id }
TextFile  == [id : CellIds, text : Texts]
\* Vec<TextFile>, duplicates allowed
TextLists == UNION {[1..n -> TextFile] : n \in 0..MaxLen}
\* struct Notebook { id, name, texts }: the value a client submits
Notebook  == [id : NbIds, name : Names, texts : TextLists]

Range(f) == {f[i] : i \in DOMAIN f}
\* the ids of a Vec<TextFile>
Ids(ts) == {ts[i].id : i \in DOMAIN ts}
\* two entries of the Vec carry the same id
HasDuplicateIds(ts) == \E i, j \in DOMAIN ts : i # j /\ ts[i].id = ts[j].id

\* Option<T> is a set with at most one element: {} is None, {x} is Some(x)
None == {}
Some(x) == {x}

VARIABLES
    db,         \* the database: [notebooks, texts, nb_seq, tx_seq]
    session,    \* session[s]: Option<i32>, the "notebook_id" entry of session s
    last,       \* the last request served as a whole, and its response
    inflight,   \* inflight[s]: the request of session s being served statement
                \* by statement (used by the interleaved specification only)
    notebook,   \* the RwSignal<Option<Notebook>> of the page's NotebookComponent
    tasks,      \* the bag of spawn_local tasks of the page that have not finished
    edit        \* the last call of Notebook::set_text or Notebook::delete_text
                \* with the notebook it was called on (SpecEdit only)

\* the state of the page in the browser
client == <<notebook, tasks, edit>>

vars == <<db, session, last, inflight, notebook, tasks, edit>>

\* ------------------------------------------------------------- the store
\* db.notebooks : id -> name, for the rows of table notebooks (id is the key)
\* db.texts     : id -> [notebook_id, text], for the rows of table texts
\* db.nb_seq, db.tx_seq : the next value of the id sequences of the two tables
EmptyDb == [notebooks |-> <<>>, texts |-> <<>>, nb_seq |-> 1, tx_seq |-> 1]

\* (mutant) table notebooks without the UNIQUE constraint on name
NameNeverTaken(d, id, name) == FALSE

\* notebooks.name is UNIQUE: a statement that would leave two rows with the
\* name `name` (one of them row `id`) fails
NameTaken(d, id, name) ==
    \E j \in DOMAIN d.notebooks : j # id /\ d.notebooks[j] = name

\* SELECT name FROM notebooks WHERE id = $1   (fetch_optional)
SelectName(d, id) ==
    IF id \in DOMAIN d.notebooks THEN Some(d.notebooks[id]) ELSE None

\* (mutant) the join without its WHERE clause: the texts of every notebook
SelectTextsOfAll(d, id) ==
    {[id |-> c, text |-> d.texts[c].text] :
        c \in {x \in DOMAIN d.texts : d.texts[x].notebook_id \in DOMAIN d.notebooks}}

\* SELECT texts.id, texts.text FROM notebooks JOIN texts
\*   ON notebooks.id = texts.notebook_id WHERE notebooks.id = $1   (fetch_all)
\* as the set of rows; the order of the rows is the database's choice
SelectTexts(d, id) ==
    {[id |-> c, text |-> d.texts[c].text] :
        c \in {x \in DOMAIN d.texts :
                  d.texts[x].notebook_id = id /\ id \in DOMAIN d.notebooks}}

\* the sequences that list the set S once each, in any order
Orders(S) ==
    {f \in [1..Cardinality(S) -> S] : \A i, j \in DOMAIN f : i # j => f[i] # f[j]}

\* Notebook::get_from_id: the set of values it can return (Option<Notebook>),
\* one for each order in which the database may yield the rows
get_from_id(d, id) ==
    LET notebook_name == SelectName(d, id)
        results       == SelectTexts(d, id)
    IN  IF notebook_name # None
        THEN {Some([id |-> id, name |-> n, texts |-> ts]) :
                 n \in notebook_name, ts \in Orders(results)}
        ELSE {None}

\* (mutant) the SELECT without its WHERE clause: any row will do
SelectIdOfAny(d, name) == DOMAIN d.notebooks

\* SELECT id FROM notebooks WHERE name = $1   (fetch_optional): the rows found
SelectIdByName(d, name) == {i \in DOMAIN d.notebooks : d.notebooks[i] = name}

\* INSERT INTO notebooks (id, name) VALUES ($1, $2)
\*   ON CONFLICT (id) DO UPDATE SET name = EXCLUDED.name
UpsertNotebook(d, id, name) ==
    IF NameTaken(d, id, name)
    THEN [ok |-> FALSE, db |-> d]
    ELSE [ok |-> TRUE,
          db |-> [d EXCEPT !.notebooks =
                     [j \in DOMAIN d.notebooks \cup {id} |->
                         IF j = id THEN name ELSE d.notebooks[j]]]]

\* (mutant) the insert without its id column: every text gets a fresh id from
\* the sequence instead of the id it carries
UpsertTextsFreshIds(d, id, ts) ==
    LET new == [i \in DOMAIN ts |-> d.tx_seq + i - 1]
        next == [d EXCEPT !.tx_seq = d.tx_seq + Len(ts)]
    IN  IF \E i \in DOMAIN ts : new[i] \in DOMAIN d.texts
        THEN [ok |-> FALSE, db |-> next]
        ELSE [ok |-> TRUE,
              db |-> [next EXCEPT !.texts =
                         [c \in DOMAIN d.texts \cup Range(new) |->
                             IF c \in DOMAIN d.texts THEN d.texts[c]
                             ELSE [notebook_id |-> id,
                                   text |-> ts[c - d.tx_seq + 1].text]]]]

\* INSERT INTO texts (id, notebook_id, text) VALUES ($2, $1, $3), ($4, $1, $5), ...
\*   ON CONFLICT (id) DO UPDATE SET text = EXCLUDED.text
\* A row that exists keeps its notebook_id; only its text is set.  Postgres
\* rejects the statement when two of its rows have the same id ("ON CONFLICT DO
\* UPDATE command cannot affect row a second time").
UpsertTexts(d, id, ts) ==
    IF HasDuplicateIds(ts)
    THEN [ok |-> FALSE, db |-> d]
    ELSE [ok |-> TRUE,
          db |-> [d EXCEPT !.texts =
                     [c \in DOMAIN d.texts \cup Ids(ts) |->
                         IF c \in Ids(ts)
                         THEN LET t == CHOOSE i \in DOMAIN ts : ts[i].id = c
                              IN  [notebook_id |-> IF c \in DOMAIN d.texts
                                                   THEN d.texts[c].notebook_id
                                                   ELSE id,
                                   text |-> ts[t].text]
                         ELSE d.texts[c]]]]

\* (mutant) no statement is sent when there is no id to keep
DeleteStaleUnlessEmpty(d, id, ts) ==
    LET gone == IF ts # <<>>
                THEN {c \in DOMAIN d.texts :
                         c \notin Ids(ts) /\ d.texts[c].notebook_id = id}
                ELSE {}
    IN  [ok |-> TRUE,
         db |-> [d EXCEPT !.texts = [c \in DOMAIN d.texts \ gone |-> d.texts[c]]]]

\* (mutant) Notebook::save without its third statement
DeleteNothing(d, id, ts) == [ok |-> TRUE, db |-> d]

\* DELETE FROM texts WHERE id NOT IN (ids_to_keep) AND notebook_id = $1
\* and, when there is no id to keep, DELETE FROM texts WHERE notebook_id = $1
DeleteStale(d, id, ts) ==
    LET gone == IF ts # <<>>
                THEN {c \in DOMAIN d.texts :
                         c \notin Ids(ts) /\ d.texts[c].notebook_id = id}
                ELSE {c \in DOMAIN d.texts : d.texts[c].notebook_id = id}
    IN  [ok |-> TRUE,
         db |-> [d EXCEPT !.texts = [c \in DOMAIN d.texts \ gone |-> d.texts[c]]]]

\* Notebook::save: the three statements in order, `?` returning at the first
\* error with the earlier statements already applied.
\* sent: the number of statements sent to the database.
save(d, nb) ==
    LET r1 == UpsertNotebook(d, nb.id, nb.name)
        r2 == IF nb.texts # <<>> THEN UpsertTexts(r1.db, nb.id, nb.texts)
                                 ELSE [ok |-> TRUE, db |-> r1.db]
        r3 == DeleteStale(r2.db, nb.id, nb.texts)
    IN  IF ~r1.ok THEN [ok |-> FALSE, db |-> r1.db, sent |-> 1]
        ELSE IF ~r2.ok THEN [ok |-> FALSE, db |-> r2.db, sent |-> 2]
        ELSE [ok |-> r3.ok, db |-> r3.db,
              sent |-> IF nb.texts # <<>> THEN 3 ELSE 2]

\* (mutant) is_some() in place of is_some_and(..): any opened notebook will do
HasAnyMarker(marker, id) == marker # None

\* (mutant) is_none_or(..) in place of is_some_and(..): no marker will do too
HasNoOtherMarker(marker, id) == marker = None \/ marker = Some(id)

\* session.get("notebook_id").is_some_and(|notebook_id| notebook_id == id)
HasAccess(marker, id) == marker = Some(id)

\* INSERT INTO notebooks (name) VALUES ($1) RETURNING id   (fetch_one)
\* The id comes from the sequence, which advances even when the insert fails.
InsertNotebook(d, name) ==
    LET id   == d.nb_seq
        next == [d EXCEPT !.nb_seq = id + 1]
    IN  IF id \in DOMAIN d.notebooks \/ NameTaken(d, id, name)
        THEN [ok |-> FALSE, db |-> next, id |-> id]
        ELSE [ok |-> TRUE,
              db |-> [next EXCEPT !.notebooks =
                         [j \in DOMAIN d.notebooks \cup {id} |->
                             IF j = id THEN name ELSE d.notebooks[j]]],
              id |-> id]

\* INSERT INTO texts (notebook_id, text) VALUES ($1, 'New Text Box...')
\*   RETURNING id, text   (fetch_one)
\* The id comes from the sequence; a row saved earlier under that id makes the
\* insert fail on the primary key.
InsertText(d, notebook_id) ==
    LET id   == d.tx_seq
        next == [d EXCEPT !.tx_seq = id + 1]
    IN  IF id \in DOMAIN d.texts
        THEN [ok |-> FALSE, db |-> next, id |-> id]
        ELSE [ok |-> TRUE,
              db |-> [next EXCEPT !.texts =
                         [c \in DOMAIN d.texts \cup {id} |->
                             IF c = id
                             THEN [notebook_id |-> notebook_id, text |-> NewTextBox]
                             ELSE d.texts[c]]],
              id |-> id]

\* (mutant) the check is skipped
never_exists(d, notebook_name) == FALSE

\* create_notebook's check: the SELECT found a row with the name
already_exists(d, notebook_name) == SelectIdByName(d, notebook_name) # None

\* ------------------------------------------------------------- responses
\* What a server function answers: result is "Ok" or the error,
\*   "NoAccess"      NoAccessToNotebookError / "You don't have access to that notebook!"
\*   "NotFound"      "Couldn't find a notebook with id {id}!"
\*   "DoesNotExist"  "That notebook doesn't exist!"
\*   "AlreadyExists" "That notebook already exists!"
\*   "StoreError"    an sqlx::Error, passed on as e.to_string()
\* redirect is what leptos_actix::redirect was called with ("none": not called;
\* "/notebook/{id}" is followed by the id in newid).
\* `last` records the request with it: op, the session, the notebook id and name
\* it names, for a save that succeeded the texts it carried, the number of SQL
\* statements sent, and the id the store assigned (0: none).
Served(op, s, id, name, texts, result, redirect, queries, newid) ==
    [op |-> op, sess |-> s, id |-> id, name |-> name, texts |-> texts,
     result |-> result, redirect |-> redirect, queries |-> queries,
     newid |-> newid]

NoRequest == Served("none", "s1", 0, "", <<>>, "Ok", "none", 0, 0)

NoInflight == [s \in Sessions |-> [pc |-> "idle"]]

\* no call of set_text or delete_text yet
NoEdit == [op |-> "none"]

Init ==
    /\ db = EmptyDb
    /\ session = [s \in Sessions |-> None]
    /\ last = NoRequest
    /\ inflight = NoInflight
    /\ notebook = None
    /\ tasks = EmptyBag
    /\ edit = NoEdit

\* ------------------------------------------------------------- server functions
\* get_notebook(id), called in session s
get_notebook(s, id) ==
    /\ last = NoRequest
    /\ IF HasAccess(session[s], id)
       THEN \E r \in get_from_id(db, id) :
               last' = Served("get_notebook", s, id, "", <<>>,
                              IF r # None THEN "Ok" ELSE "NotFound", "none", 2, 0)
       ELSE last' = Served("get_notebook", s, id, "", <<>>, "NoAccess", "/", 0, 0)
    /\ UNCHANGED <<db, session, inflight, client>>

\* save_notebook(notebook), called in session s
save_notebook(s, nb) ==
    /\ last = NoRequest
    /\ IF HasAccess(session[s], nb.id)
       THEN LET r == save(db, nb)
            IN  /\ db' = r.db
                /\ last' = Served("save_notebook", s, nb.id, nb.name,
                                  IF r.ok THEN nb.texts ELSE <<>>,
                                  IF r.ok THEN "Ok" ELSE "StoreError",
                                  "none", r.sent, 0)
       ELSE /\ db' = db
            /\ last' = Served("save_notebook", s, nb.id, nb.name, <<>>,
                              "NoAccess", "/", 0, 0)
    /\ UNCHANGED <<session, inflight, client>>

\* select_notebook(notebook_name), called in session s
select_notebook(s, notebook_name) ==
    /\ last = NoRequest
    /\ LET notebook_id == SelectIdByName(db, notebook_name)
       IN  IF notebook_id # None
           THEN \E id \in notebook_id :
                   /\ session' = [session EXCEPT ![s] = Some(id)]
                   /\ last' = Served("select_notebook", s, id, notebook_name, <<>>,
                                     "Ok", "/notebook/{id}", 1, id)
           ELSE /\ session' = session
                /\ last' = Served("select_notebook", s, 0, notebook_name, <<>>,
                                  "DoesNotExist", "none", 1, 0)
    /\ UNCHANGED <<db, inflight, client>>

\* create_notebook(notebook_name), called in session s
create_notebook(s, notebook_name) ==
    /\ last = NoRequest
    /\ already_exists(db, notebook_name) \/ db.nb_seq <= MaxNb
    /\ IF already_exists(db, notebook_name)
       THEN /\ UNCHANGED <<db, session>>
            /\ last' = Served("create_notebook", s, 0, notebook_name, <<>>,
                              "AlreadyExists", "none", 1, 0)
       ELSE LET r == InsertNotebook(db, notebook_name)
            IN  /\ db' = r.db
                /\ IF r.ok
                   THEN /\ session' = [session EXCEPT ![s] = Some(r.id)]
                        /\ last' = Served("create_notebook", s, r.id,
                                          notebook_name, <<>>, "Ok",
                                          "/notebook/{id}", 2, r.id)
                   ELSE /\ session' = session
                        /\ last' = Served("create_notebook", s, 0,
                                          notebook_name, <<>>, "StoreError",
                                          "none", 2, 0)
    /\ UNCHANGED <<inflight, client>>

\* add_new_text_to_notebook(id), called in session s
add_new_text_to_notebook(s, id) ==
    /\ last = NoRequest
    /\ IF HasAccess(session[s], id)
       THEN /\ db.tx_seq <= MaxCell
            /\ LET r == InsertText(db, id)
               IN  /\ db' = r.db
                   /\ last' = Served("add_new_text_to_notebook", s, id, "", <<>>,
                                     IF r.ok THEN "Ok" ELSE "StoreError",
                                     "none", 1, IF r.ok THEN r.id ELSE 0)
       ELSE /\ db' = db
            /\ last' = Served("add_new_text_to_notebook", s, id, "", <<>>,
                              "NoAccess", "/", 0, 0)
    /\ UNCHANGED <<session, inflight, client>>

\* The response has gone back to the client: the server is ready for the next
\* request
respond ==
    /\ last # NoRequest
    /\ last' = NoRequest
    /\ UNCHANGED <<db, session, inflight, client>>

\* Requests served one at a time.  A save that the gate refuses does not look at
\* the texts it carries, so one list stands for all of them there.
Next ==
    \/ \E s \in Sessions, id \in NbIds : get_notebook(s, id)
    \/ \E s \in Sessions, id \in NbIds, n \in Names :
          IF HasAccess(session[s], id)
          THEN \E ts \in TextLists :
                  save_notebook(s, [id |-> id, name |-> n, texts |-> ts])
          ELSE save_notebook(s, [id |-> id, name |-> n, texts |-> <<>>])
    \/ \E s \in Sessions, n \in Names : select_notebook(s, n)
    \/ \E s \in Sessions, n \in Names : create_notebook(s, n)
    \/ \E s \in Sessions, id \in NbIds : add_new_text_to_notebook(s, id)
    \/ respond

Spec == Init /\ [][Next]_vars

\* ------------------------------------------------------------- interleaving
\* The same server functions with their statements as separate steps: between
\* two statements of one request (an .await) the statements of the other
\* session's request may run.  inflight[s] is the request of session s:
\*   pc = "idle"            none in flight
\*   pc = "create_select"   create_notebook before its SELECT
\*   pc = "create_insert"   create_notebook before its INSERT
\*   pc = "save_name"       Notebook::save before the notebooks upsert
\*   pc = "save_texts"      Notebook::save before the texts upsert
\*   pc = "save_delete"     Notebook::save before the DELETE
\*   pc = "saved"           none in flight; the last request was a save that
\*                          returned Ok(())
\* A request in flight keeps the arguments its remaining statements use.
\* a notebook saved under interleaving carries no text or one
ConcTextLists == {<<>>} \cup {<<t>> : t \in TextFile}

Idle == [pc |-> "idle"]
Free(s) == inflight[s].pc \in {"idle", "saved"}
SaveAt(pc, id, texts) == [pc |-> pc, id |-> id, texts |-> texts]
CreatesInFlight ==
    Cardinality({s \in Sessions : inflight[s].pc \in {"create_select", "create_insert"}})

\* select_notebook has one statement
select_notebook_step(s, notebook_name) ==
    /\ Free(s)
    /\ LET notebook_id == SelectIdByName(db, notebook_name)
       IN  IF notebook_id # None
           THEN \E id \in notebook_id : session' = [session EXCEPT ![s] = Some(id)]
           ELSE session' = session
    /\ inflight' = [inflight EXCEPT ![s] = Idle]
    /\ UNCHANGED <<db, last, client>>

\* create_notebook is called
create_notebook_call(s, notebook_name) ==
    /\ Free(s)
    /\ db.nb_seq + CreatesInFlight <= MaxNb
    /\ inflight' = [inflight EXCEPT ![s] =
                       [pc |-> "create_select", name |-> notebook_name]]
    /\ UNCHANGED <<db, session, last, client>>

\* its SELECT id FROM notebooks WHERE name = $1, and the branch on it
create_notebook_select(s) ==
    /\ inflight[s].pc = "create_select"
    /\ inflight' = [inflight EXCEPT ![s] =
                       IF already_exists(db, inflight[s].name)
                       THEN Idle
                       ELSE [pc |-> "create_insert", name |-> inflight[s].name]]
    /\ UNCHANGED <<db, session, last, client>>

\* its INSERT, and session.insert("notebook_id", id)
create_notebook_insert(s) ==
    /\ inflight[s].pc = "create_insert"
    /\ LET r == InsertNotebook(db, inflight[s].name)
       IN  /\ db' = r.db
           /\ session' = IF r.ok THEN [session EXCEPT ![s] = Some(r.id)] ELSE session
    /\ inflight' = [inflight EXCEPT ![s] = Idle]
    /\ UNCHANGED <<last, client>>

\* save_notebook is called: the access gate
save_notebook_call(s, nb) ==
    /\ Free(s)
    /\ inflight' = [inflight EXCEPT ![s] =
                       IF HasAccess(session[s], nb.id)
                       THEN [pc |-> "save_name", id |-> nb.id, name |-> nb.name,
                             texts |-> nb.texts]
                       ELSE Idle]
    /\ UNCHANGED <<db, session, last, client>>

\* Notebook::save, first statement
save_name(s) ==
    /\ inflight[s].pc = "save_name"
    /\ LET rq == inflight[s]
           r  == UpsertNotebook(db, rq.id, rq.name)
       IN  /\ db' = r.db
           /\ inflight' = [inflight EXCEPT ![s] =
                              IF r.ok THEN SaveAt("save_texts", rq.id, rq.texts)
                                      ELSE Idle]
    /\ UNCHANGED <<session, last, client>>

\* Notebook::save, second statement (none when there are no texts)
save_texts(s) ==
    /\ inflight[s].pc = "save_texts"
    /\ LET rq == inflight[s]
           r  == IF rq.texts # <<>> THEN UpsertTexts(db, rq.id, rq.texts)
                                    ELSE [ok |-> TRUE, db |-> db]
       IN  /\ db' = r.db
           /\ inflight' = [inflight EXCEPT ![s] =
                              IF r.ok THEN SaveAt("save_delete", rq.id, rq.texts)
                                      ELSE Idle]
    /\ UNCHANGED <<session, last, client>>

\* Notebook::save, third statement
save_delete(s) ==
    /\ inflight[s].pc = "save_delete"
    /\ LET rq == inflight[s]
           r  == DeleteStale(db, rq.id, rq.texts)
       IN  /\ db' = r.db
           /\ inflight' = [inflight EXCEPT ![s] =
                              IF r.ok THEN SaveAt("saved", rq.id, rq.texts)
                                      ELSE Idle]
    /\ UNCHANGED <<session, last, client>>

\* A save that the gate refuses does not look at the texts it carries.
NextConc ==
    \/ \E s \in Sessions, n \in Names : select_notebook_step(s, n)
    \/ \E s \in Sessions, n \in Names : create_notebook_call(s, n)
    \/ \E s \in Sessions : create_notebook_select(s)
    \/ \E s \in Sessions : create_notebook_insert(s)
    \/ \E s \in Sessions, id \in NbIds, n \in Names :
          IF HasAccess(session[s], id)
          THEN \E ts \in ConcTextLists :
                  save_notebook_call(s, [id |-> id, name |-> n, texts |-> ts])
          ELSE save_notebook_call(s, [id |-> id, name |-> n, texts |-> <<>>])
    \/ \E s \in Sessions : save_name(s)
    \/ \E s \in Sessions : save_texts(s)
    \/ \E s \in Sessions : save_delete(s)

SpecConc == Init /\ [][NextConc]_vars

\* ------------------------------------------------------------- properties
\* the texts notebook id owns in store d
Owned(d, id) == {c \in DOMAIN d.texts : d.texts[c].notebook_id = id}
\* the notebook value of the save recorded in `last`
LastNotebook == [id |-> last.id, name |-> last.name, texts |-> last.texts]
SavedOk == last.op = "save_notebook" /\ last.result = "Ok"
GatedOps == {"get_notebook", "save_notebook", "add_new_text_to_notebook"}

\* C1 (as claimed): after a successful save(N), get_from_id(N.id) returns a
\* notebook whose set of (id, text) pairs is exactly the set of texts of N.
RoundTrip ==
    SavedOk =>
        \A r \in get_from_id(db, last.id) :
            \E nb \in r : Range(nb.texts) = Range(last.texts)

\* C2: a successful save of a snapshot of notebook N with text ids K removes
\* every text N owned whose id is not in K, leaves every text of the snapshot
\* in the store with the snapshot's text, and with K empty leaves N no text.
DeletionByOmission ==
    [][(last'.op = "save_notebook" /\ last'.result = "Ok") =>
          LET K == Ids(last'.texts)
              S == Owned(db, last'.id)
          IN  /\ \A c \in S \ K : c \notin DOMAIN db'.texts
              /\ \A i \in DOMAIN last'.texts :
                    /\ last'.texts[i].id \in DOMAIN db'.texts
                    /\ db'.texts[last'.texts[i].id].text = last'.texts[i].text
              /\ K = {} => Owned(db', last'.id) = {}]_vars

\* a save that kept some texts, after which a text id the sequence handed out
\* earlier is gone from the store
DeletionByOmissionWitness ==
    /\ SavedOk
    /\ last.texts # <<>>
    /\ Owned(db, last.id) = Ids(last.texts)
    /\ \E c \in 1..(db.tx_seq - 1) : c \notin DOMAIN db.texts

\* C3 (as claimed): a save that fails leaves the store exactly as it was.
SaveAtomic ==
    [][(last'.op = "save_notebook" /\ last'.result = "StoreError") => db' = db]_vars

\* C4: get_notebook, save_notebook and add_new_text_to_notebook send a
\* statement to the store only when the session's notebook_id is present and
\* equal to the target id; otherwise the store is untouched, the answer is the
\* no-access error and the redirect is to "/".
AccessGate ==
    [][last'.op \in GatedOps =>
          IF session[last'.sess] = {last'.id}
          THEN last'.queries > 0 /\ last'.result # "NoAccess"
          ELSE /\ db' = db
               /\ last'.queries = 0
               /\ last'.result = "NoAccess"
               /\ last'.redirect = "/"]_vars

\* a request refused although the session has opened a notebook (another one)
AccessGateWitness ==
    /\ last.op \in GatedOps
    /\ last.result = "NoAccess"
    /\ session[last.sess] # None
    /\ DOMAIN db.texts # {}

\* C5: create_notebook with a name some notebook has fails with the
\* already-exists error and changes neither the store nor the session.
CreateExistingFails ==
    [][(/\ last'.op = "create_notebook"
        /\ \E j \in DOMAIN db.notebooks : db.notebooks[j] = last'.name) =>
          /\ last'.result = "AlreadyExists"
          /\ db' = db
          /\ session' = session]_vars

CreateExistingFailsWitness ==
    /\ last.op = "create_notebook"
    /\ last.result = "AlreadyExists"
    /\ \E j \in DOMAIN db.notebooks : db.notebooks[j] = last.name

\* C6: after a successful save(N), a second save(N) succeeds too and leaves
\* the store as the first one left it.
SaveIdempotent ==
    SavedOk => LET r == save(db, LastNotebook) IN r.ok /\ r.db = db

\* a save of texts that did change the store: a text of another notebook is
\* in the snapshot, and a text of this notebook is
SaveIdempotentWitness ==
    /\ SavedOk
    /\ Len(last.texts) = 2
    /\ \E i \in DOMAIN last.texts : last.texts[i].id \notin Owned(db, last.id)
    /\ \E i \in DOMAIN last.texts : last.texts[i].id \in Owned(db, last.id)

\* C9: after a successful create_notebook("X") that assigned id i, loading
\* notebook i returns id i, name "X" and no texts.
CreateThenLoad ==
    (last.op = "create_notebook" /\ last.result = "Ok") =>
        get_from_id(db, last.newid) =
            {Some([id |-> last.newid, name |-> last.name, texts |-> <<>>])}

\* a notebook created while another notebook has texts
CreateThenLoadWitness ==
    /\ last.op = "create_notebook"
    /\ last.result = "Ok"
    /\ DOMAIN db.texts # {}

\* C10 (as claimed): add_new_text_to_notebook(id) for an id no notebook has
\* fails with NotFound and inserts no row.
AddToMissingIsNotFound ==
    [][(last'.op = "add_new_text_to_notebook" /\ last'.id \notin DOMAIN db.notebooks) =>
          last'.result = "NotFound" /\ db' = db]_vars

\* C10 (amended): add_new_text_to_notebook(id) for an id no notebook has is
\* refused by the access gate: the no-access error, a redirect to "/", and
\* no row inserted.
AddToMissingIsRefused ==
    [][(last'.op = "add_new_text_to_notebook" /\ last'.id \notin DOMAIN db.notebooks) =>
          /\ last'.result = "NoAccess"
          /\ last'.redirect = "/"
          /\ db' = db]_vars

\* such a request from a session that has opened a notebook
AddToMissingWitness ==
    /\ last.op = "add_new_text_to_notebook"
    /\ last.id \notin DOMAIN db.notebooks
    /\ session[last.sess] # None

\* C7: no two rows of table notebooks have the same name, whatever the
\* interleaving of the statements of create_notebook and save_notebook requests.
NameUnique ==
    \A i, j \in DOMAIN db.notebooks : i # j => db.notebooks[i] # db.notebooks[j]

\* an id of the sequence was used up by an INSERT that failed: of two create_notebook requests that both found the name free, the
\* second to insert was rejected
NameUniqueWitness ==
    /\ DOMAIN db.notebooks # {}
    /\ db.nb_seq - 1 > Cardinality(DOMAIN db.notebooks)

\* C8 (as claimed): when the last requests of the two sessions are saves of
\* the same notebook that both returned Ok, the texts of the notebook are those
\* of one of the two snapshots.  (Stated for snapshots none of whose texts
\* belongs to another notebook, where each save alone does store its snapshot.)
LastWriteWins ==
    \A s1, s2 \in Sessions :
        (/\ s1 # s2
         /\ inflight[s1].pc = "saved"
         /\ inflight[s2].pc = "saved"
         /\ inflight[s1].id = inflight[s2].id
         /\ \A c \in Ids(inflight[s1].texts) \cup Ids(inflight[s2].texts) :
               c \in DOMAIN db.texts => db.texts[c].notebook_id = inflight[s1].id)
        => \/ SelectTexts(db, inflight[s1].id) = Range(inflight[s1].texts)
           \/ SelectTexts(db, inflight[s1].id) = Range(inflight[s2].texts)

\* C11 (as claimed): after a successful save(N), every text listed in N is a
\* row of table texts whose notebook_id is N.id, also when the row existed
\* under another notebook before the save.
ReparentOnUpsert ==
    SavedOk =>
        \A c \in Ids(last.texts) :
            c \in DOMAIN db.texts /\ db.texts[c].notebook_id = last.id

\* C12 (as claimed): a save_notebook request that passes the access gate for
\* notebook A leaves every row of table texts that another notebook owns as it
\* was: still there, with the same text and the same notebook_id.
CrossNotebookIsolation ==
    [][(last'.op = "save_notebook" /\ last'.result # "NoAccess") =>
          \A c \in DOMAIN db.texts :
              db.texts[c].notebook_id # last'.id =>
                  c \in DOMAIN db'.texts /\ db'.texts[c] = db.texts[c]]_vars

\* C15: a session's notebook_id is absent or the id of a row of table
\* notebooks; it is written only by a select_notebook that found a row with
\* the name or by a create_notebook that inserted the row, and it then is that
\* row's id; a select_notebook or create_notebook that fails leaves every
\* session as it was.
MarkerNamesNotebook ==
    [][/\ \A s \in Sessions :
              session'[s] = None \/ \E i \in DOMAIN db'.notebooks : session'[s] = {i}
       /\ \A s \in Sessions :
              session'[s] # session[s] =>
                  /\ last'.sess = s
                  /\ last'.result = "Ok"
                  /\ session'[s] = {last'.newid}
                  /\ \/ /\ last'.op = "select_notebook"
                        /\ last'.newid \in DOMAIN db.notebooks
                        /\ db.notebooks[last'.newid] = last'.name
                        /\ db' = db
                     \/ /\ last'.op = "create_notebook"
                        /\ last'.newid \notin DOMAIN db.notebooks
                        /\ last'.newid \in DOMAIN db'.notebooks
                        /\ db'.notebooks[last'.newid] = last'.name
       /\ (last'.op \in {"select_notebook", "create_notebook"} /\ last'.result # "Ok")
              => session' = session]_vars

\* a select_notebook that failed in a session that had opened a notebook,
\* while the other session has opened a notebook too
MarkerNamesNotebookWitness ==
    /\ last.op = "select_notebook"
    /\ last.result = "DoesNotExist"
    /\ \A s \in Sessions : session[s] # None

\* ------------------------------------------------------------- the client
MaxTasks == 2     \* the page has at most MaxTasks spawn_local tasks unfinished

\* the session of the browser whose page is modelled
ClientSession == "s1"

\* the first index of ts that holds id (0: none), as iter().find(..) finds it
Find(ts, id) ==
    IF id \in Ids(ts)
    THEN CHOOSE i \in DOMAIN ts :
            ts[i].id = id /\ \A j \in 1..(i - 1) : ts[j].id # id
    ELSE 0

\* Notebook::add_new_text
add_new_text(nb, text) == [nb EXCEPT !.texts = Append(@, text)]

\* (mutant) iter_mut().filter(..).for_each(..) in place of iter_mut().find(..):
\* every text with the id is set
set_text_of_all(nb, id, text) ==
    [nb EXCEPT !.texts =
        [i \in DOMAIN @ |-> IF @[i].id = id THEN [id |-> id, text |-> text] ELSE @[i]]]

\* Notebook::set_text
set_text(nb, id, text) ==
    LET i == Find(nb.texts, id)
    IN  IF i # 0 THEN [nb EXCEPT !.texts[i].text = text] ELSE nb

\* Notebook::delete_text
delete_text(nb, id) ==
    LET i == Find(nb.texts, id)
    IN  IF i # 0
        THEN [nb EXCEPT !.texts =
                 [j \in 1..(Len(@) - 1) |-> IF j < i THEN @[j] ELSE @[j + 1]]]
        ELSE nb

\* A step of the page waits for `respond` like a request does: `last` is the
\* last request served, until its response has gone back.
\* The tasks of the page.  A task is at its .await (the request is on its way
\* to the server, or in the server's queue) or holds the response:
\*   get_notebook(id).await                      Get(id)
\*   Ok(received_notebook)                       Received(nb)
\*   save_notebook(notebook).await               Save(nb)
\*   .unwrap() of an Err: the task panicked      Panicked
\*   add_new_text_to_notebook(id).await          Add(id)
\*   Ok(text)                                    Added(text)
Get(id)      == [op |-> "get_notebook", id |-> id]
Received(nb) == [op |-> "received_notebook", nb |-> nb]
Save(nb)     == [op |-> "save_notebook", nb |-> nb]
Panicked     == [op |-> "panicked"]
Add(id)      == [op |-> "add_new_text_to_notebook", id |-> id]
Added(text)  == [op |-> "add_new_text", text |-> text]

Task(t)    == SetToBag({t})
Pending    == BagToSet(tasks)
\* the second Effect of NotebookComponent: it runs when the signal is set or
\* updated, and spawns save_notebook(notebook.clone()) when there is a notebook
Effect(nbopt) == IF nbopt # None THEN Task(Save(CHOOSE nb \in nbopt : TRUE)) ELSE EmptyBag

\* the name typed into the create form (the page never changes the name of
\* its notebook, and no other notebook is created)
TypedName == "a"

\* HomePage: the create form is submitted; no notebook page is open
HomePage_create(notebook_name) ==
    /\ notebook = None
    /\ tasks = EmptyBag
    /\ create_notebook(ClientSession, notebook_name)

\* The browser follows the redirect to /notebook/{id}: NotebookComponent(id) is
\* mounted, with RwSignal::new(None), and its first Effect spawns get_notebook(id)
NotebookComponent(id) ==
    /\ notebook = None
    /\ tasks = EmptyBag
    /\ last.sess = ClientSession
    /\ last.redirect = "/notebook/{id}"
    /\ last.newid = id
    /\ last' = NoRequest
    /\ notebook' = None
    /\ tasks' = Task(Get(id))
    /\ UNCHANGED <<db, session, inflight, edit>>

\* the server serves the get_notebook request of a task
serve_get_notebook(t) ==
    /\ last = NoRequest
    /\ t \in Pending
    /\ t.op = "get_notebook"
    /\ IF HasAccess(session[ClientSession], t.id)
       THEN \E r \in get_from_id(db, t.id) :
               /\ last' = Served("get_notebook", ClientSession, t.id, "", <<>>,
                                 IF r # None THEN "Ok" ELSE "NotFound", "none", 2, 0)
               /\ tasks' = (tasks (-) Task(t)) (+)
                              IF r # None THEN Task(Received(CHOOSE nb \in r : TRUE))
                                          ELSE EmptyBag
       ELSE /\ last' = Served("get_notebook", ClientSession, t.id, "", <<>>,
                              "NoAccess", "/", 0, 0)
            /\ tasks' = tasks (-) Task(t)
    /\ UNCHANGED <<db, session, inflight, notebook, edit>>

\* Ok(received_notebook) => notebook.set(Some(received_notebook))
notebook_set(t) ==
    /\ last = NoRequest
    /\ t \in Pending
    /\ t.op = "received_notebook"
    /\ notebook' = Some(t.nb)
    /\ tasks' = (tasks (-) Task(t)) (+) Effect(notebook')
    /\ UNCHANGED <<db, session, last, inflight, edit>>

\* the server serves the save_notebook request of a task; the task ends with
\* the response, or panics in .unwrap()
serve_save_notebook(t) ==
    /\ last = NoRequest
    /\ t \in Pending
    /\ t.op = "save_notebook"
    /\ IF HasAccess(session[ClientSession], t.nb.id)
       THEN LET r == save(db, t.nb)
            IN  /\ db' = r.db
                /\ last' = Served("save_notebook", ClientSession, t.nb.id, t.nb.name,
                                  IF r.ok THEN t.nb.texts ELSE <<>>,
                                  IF r.ok THEN "Ok" ELSE "StoreError",
                                  "none", r.sent, 0)
                /\ tasks' = (tasks (-) Task(t)) (+)
                               IF r.ok THEN EmptyBag ELSE Task(Panicked)
       ELSE /\ db' = db
            /\ last' = Served("save_notebook", ClientSession, t.nb.id, t.nb.name,
                              <<>>, "NoAccess", "/", 0, 0)
            /\ tasks' = (tasks (-) Task(t)) (+) Task(Panicked)
    /\ UNCHANGED <<session, inflight, notebook, edit>>

\* AddTextButton is clicked: with a notebook loaded, a task is spawned that
\* calls add_new_text_to_notebook(id)
AddTextButton ==
    /\ last = NoRequest
    /\ notebook # None
    /\ BagCardinality(tasks) < MaxTasks
    /\ db.tx_seq + Cardinality({t \in Pending : t.op = "add_new_text_to_notebook"})
          <= MaxCell
    /\ \E nb \in notebook : tasks' = tasks (+) Task(Add(nb.id))
    /\ UNCHANGED <<db, session, last, inflight, notebook, edit>>

\* the server serves the add_new_text_to_notebook request of a task; on an
\* error the task logs it and ends
serve_add_new_text_to_notebook(t) ==
    /\ last = NoRequest
    /\ t \in Pending
    /\ t.op = "add_new_text_to_notebook"
    /\ IF HasAccess(session[ClientSession], t.id)
       THEN LET r == InsertText(db, t.id)
            IN  /\ db' = r.db
                /\ last' = Served("add_new_text_to_notebook", ClientSession, t.id,
                                  "", <<>>, IF r.ok THEN "Ok" ELSE "StoreError",
                                  "none", 1, IF r.ok THEN r.id ELSE 0)
                /\ tasks' = (tasks (-) Task(t)) (+)
                               IF r.ok
                               THEN Task(Added([id |-> r.id, text |-> NewTextBox]))
                               ELSE EmptyBag
       ELSE /\ db' = db
            /\ last' = Served("add_new_text_to_notebook", ClientSession, t.id,
                              "", <<>>, "NoAccess", "/", 0, 0)
            /\ tasks' = tasks (-) Task(t)
    /\ UNCHANGED <<session, inflight, notebook, edit>>

\* Ok(text) => notebook.update(|notebook| notebook.as_mut().unwrap().add_new_text(text))
notebook_add_new_text(t) ==
    /\ last = NoRequest
    /\ t \in Pending
    /\ t.op = "add_new_text"
    /\ \E nb \in notebook : notebook' = Some(add_new_text(nb, t.text))
    /\ tasks' = (tasks (-) Task(t)) (+) Effect(notebook')
    /\ UNCHANGED <<db, session, last, inflight, edit>>

\* TextInputCell of text id: "Save" is clicked with `text` in the textarea
\* (active becomes false, and the Effect calls notebook.update(.. set_text ..))
TextInputCell_save(id, text) ==
    /\ last = NoRequest
    /\ BagCardinality(tasks) < MaxTasks
    /\ \E nb \in notebook :
          /\ id \in Ids(nb.texts)
          /\ notebook' = Some(set_text(nb, id, text))
    /\ tasks' = tasks (+) Effect(notebook')
    /\ UNCHANGED <<db, session, last, inflight, edit>>

\* TextInputCell of text id: "Delete" is clicked
TextInputCell_delete(id) ==
    /\ last = NoRequest
    /\ BagCardinality(tasks) < MaxTasks
    /\ \E nb \in notebook :
          /\ id \in Ids(nb.texts)
          /\ notebook' = Some(delete_text(nb, id))
    /\ tasks' = tasks (+) Effect(notebook')
    /\ UNCHANGED <<db, session, last, inflight, edit>>

\* The response has gone back to the page.  A response with a redirect to
\* /notebook/{id} takes the browser there: that one is NotebookComponent(id).
Responded ==
    /\ last.redirect # "/notebook/{id}"
    /\ respond

NextClient ==
    \/ HomePage_create(TypedName)
    \/ \E id \in NbIds : NotebookComponent(id)
    \/ \E t \in Pending : serve_get_notebook(t)
    \/ \E t \in Pending : notebook_set(t)
    \/ \E t \in Pending : serve_save_notebook(t)
    \/ AddTextButton
    \/ \E t \in Pending : serve_add_new_text_to_notebook(t)
    \/ \E t \in Pending : notebook_add_new_text(t)
    \/ \E id \in CellIds, text \in Texts : TextInputCell_save(id, text)
    \/ \E id \in CellIds : TextInputCell_delete(id)
    \/ Responded

SpecClient == Init /\ [][NextClient]_vars

\* C13: when add_new_text_to_notebook(n) has created text c (the sequence
\* handed out c, and the page asks for texts of its own notebook n only) and a
\* save of a snapshot of n that does not list c is applied afterwards, c is
\* not in the store after that save.
LostUpdate ==
    [][(last'.op = "save_notebook" /\ last'.result = "Ok") =>
          \A c \in 1..(db.tx_seq - 1) :
              c \notin Ids(last'.texts) => c \notin DOMAIN db'.texts]_vars

\* the response of add_new_text_to_notebook with the new text is still on its
\* way to the page, and a save of an older snapshot has removed the text
LostUpdateWitness ==
    /\ SavedOk
    /\ \E t \in Pending :
          /\ t.op = "add_new_text"
          /\ t.text.id \notin DOMAIN db.texts
          /\ t.text.id \notin Ids(last.texts)

\* C14 (as claimed): when the page has a notebook and every task it spawned
\* has finished without an error, the texts the store holds for the notebook
\* are the texts of the page's notebook.
ClientStoreConvergence ==
    (notebook # None /\ tasks = EmptyBag) =>
        \A nb \in notebook : SelectTexts(db, nb.id) = Range(nb.texts)

\* ------------------------------------------------------------- in-memory edits
\* Notebook::set_text and Notebook::delete_text applied to any value of struct
\* Notebook (a Vec may hold an id twice), again and again.  `edit` keeps the
\* call and the notebook it was called on.
InitEdit ==
    /\ db = EmptyDb
    /\ session = [s \in Sessions |-> None]
    /\ last = NoRequest
    /\ inflight = NoInflight
    /\ notebook \in {Some(nb) : nb \in Notebook}
    /\ tasks = EmptyBag
    /\ edit = NoEdit

\* notebook.set_text(id, text)
set_text_call(id, text) ==
    /\ \E nb \in notebook :
          /\ notebook' = Some(set_text(nb, id, text))
          /\ edit' = [op |-> "set_text", id |-> id, text |-> text, before |-> nb]
    /\ UNCHANGED <<db, session, last, inflight, tasks>>

\* notebook.delete_text(id)
delete_text_call(id) ==
    /\ \E nb \in notebook :
          /\ notebook' = Some(delete_text(nb, id))
          /\ edit' = [op |-> "delete_text", id |-> id, before |-> nb]
    /\ UNCHANGED <<db, session, last, inflight, tasks>>

NextEdit ==
    \/ \E id \in CellIds, text \in Texts : set_text_call(id, text)
    \/ \E id \in CellIds : delete_text_call(id)

SpecEdit == InitEdit /\ [][NextEdit]_vars

\* the texts of ts whose id is not id, in their order
Others(ts, id) == SelectSeq(ts, LAMBDA t : t.id # id)

\* C16: Notebook::set_text(id, t) and Notebook::delete_text(id) leave the id
\* and the name of the notebook, and the texts whose id is not id, with their
\* text and in their order; set_text changes the text of at most one entry and
\* nothing else, delete_text removes at most one entry and changes no other;
\* both leave the notebook as it was when no text has the id.
OneCellFootprint ==
    edit # NoEdit =>
        \A after \in notebook :
            LET before == edit.before
                a == after.texts
                b == before.texts
            IN  /\ after.id = before.id
                /\ after.name = before.name
                /\ Others(a, edit.id) = Others(b, edit.id)
                /\ edit.op = "set_text" =>
                      /\ Len(a) = Len(b)
                      /\ \A i \in DOMAIN b : a[i].id = b[i].id
                      /\ Cardinality({i \in DOMAIN b : a[i] # b[i]}) <= 1
                /\ edit.op = "delete_text" =>
                      \/ a = b
                      \/ \E i \in DOMAIN b :
                            a = [j \in 1..(Len(b) - 1) |->
                                    IF j < i THEN b[j] ELSE b[j + 1]]
                /\ edit.id \notin Ids(b) => after = before

\* set_text has changed an entry, and the entry after it has the same id
OneCellFootprintWitness ==
    /\ edit.op = "set_text"
    /\ notebook # Some(edit.before)
    /\ HasDuplicateIds(edit.before.texts)
    /\ \E nb \in notebook :
          \E i \in DOMAIN nb.texts : i > 1 /\ nb.texts[i].id = edit.id

====
